---- MODULE Spec2Model ----
(***************************************************************************)
(* Model of src/importlogging.py: AIPayroll (pay computation and the       *)
(* payroll loop) and APIUnifier.callAPI (the service gateway).             *)
(*                                                                         *)
(* Python values are records [t, v]: t is the Python type name and v the   *)
(* numeric value (0 for None).  The result of a call is an outcome record: *)
(* either a returned value or a raised exception (type and detail).        *)
(***************************************************************************)
EXTENDS Integers, Sequences, FiniteSets, TLC

\* ------------------------------------------------------------------ bounds
MaxEntities == 3
MaxBits == 1
MaxCalls == 2

VARIABLES
    ai_entities,   \* self.ai_entities: the sequence handed to __init__
    meter,         \* "stub": calculate_data_usage_in_bits as written (pass);
                   \* "defined": the method body supplied by a metering collaborator
    bank,          \* "stub": the credit branch as written (pass);
                   \* "live": an external banking collaborator that may fail
    pc,            \* position of the running call
    i,             \* index of the entity the for loop is at (0 before the first)
    pay,           \* local variable pay of process_payroll
    exc,           \* the exception in flight, or NoExc
    calls,         \* every callAPI invocation so far: service, data, outcome
    log            \* every record handed to the logging module so far

vars == <<ai_entities, meter, bank, pc, i, pay, exc, calls, log>>

\* ----------------------------------------------------------- Python values
None == [t |-> "NoneType", v |-> 0]
PyInt(n) == [t |-> "int", v |-> n]
PyFloat(n) == [t |-> "float", v |-> n]

IsNumber(x) == x.t \in {"int", "float"}

\* str(x) as an f-string replacement field renders it: 100 -> "100", 100.0 -> "100.0"
Str(x) ==
    IF x.t = "NoneType" THEN "None"
    ELSE IF x.t = "float" THEN ToString(x.v) \o ".0"
    ELSE ToString(x.v)

Return(val) == [kind |-> "return", value |-> val, type |-> "", detail |-> ""]
Raise(type, detail) == [kind |-> "raise", value |-> None, type |-> type, detail |-> detail]
Pending == [kind |-> "pending", value |-> None, type |-> "", detail |-> ""]
NoExc == Return(None)

\* The binary * of Python on the values of this model.
Mul(a, b) ==
    IF IsNumber(a) /\ IsNumber(b)
    THEN Return([t |-> IF a.t = "float" \/ b.t = "float" THEN "float" ELSE "int",
                 v |-> a.v * b.v])
    ELSE Raise("TypeError",
               "unsupported operand type(s) for *: '" \o a.t \o "' and '" \o b.t \o "'")

\* ------------------------------------------------------------ input spaces
Ids == {"ai-1", "ai-2"}
Numbers == {PyInt(n) : n \in 0..MaxBits} \cup {PyFloat(n) : n \in 0..MaxBits}
Entities == [unique_id : Ids, data_usage_bits : Numbers]
EntitySeqs == UNION {[1..n -> Entities] : n \in 0..MaxEntities}

Services == {"bank_api", "crypto_api"}
Actions == {"credit", "debit", "refund"}
Payloads ==
    [action : Actions, unique_id : {"ai-1"}, amount : {PyFloat(0), PyFloat(1)}]
    \cup [unique_id : {"ai-1"}, amount : {PyFloat(0), PyFloat(1)}]

\* ------------------------------------------------------------- AIPayroll
\* The metering collaborator a concrete system supplies for the stub.
UsageMeter(ai_entity) == ai_entity.data_usage_bits

calculate_data_usage_in_bits(ai_entity) ==
    IF meter = "stub" THEN None ELSE UsageMeter(ai_entity)

rate == PyFloat(1)

\* Mutant: the rate of a byte charged per bit.
calculate_pay_perByte(ai_entity) ==
    Mul(calculate_data_usage_in_bits(ai_entity), PyFloat(8))

calculate_pay(ai_entity) ==
    Mul(calculate_data_usage_in_bits(ai_entity), rate)

\* ------------------------------------------------------------- APIUnifier
\* The external banking collaborator behind "Call the bank API here".
BankTransfer(data) ==
    {Return(None), Raise("BankAPIUnifierException", "API error")}

\* Mutant: an unrecognized action is a silent no-op, like an unknown service.
callAPI_silent(service, data) ==
    IF service = "bank_api"
    THEN IF "action" \notin DOMAIN data
         THEN {Raise("KeyError", "'action'")}
         ELSE {Return(None)}
    ELSE {Return(None)}

\* Mutant: the comparison with 'credit' inverted.
callAPI_inverted(service, data) ==
    IF service = "bank_api"
    THEN IF "action" \notin DOMAIN data
         THEN {Raise("KeyError", "'action'")}
         ELSE IF data["action"] # "credit"
              THEN {Return(None)}
              ELSE {Raise("BankAPIUnifierException",
                          "Unrecognized action: " \o data["action"])}
    ELSE {Return(None)}

\* Mutant: data['action'] is read before the service is looked at.
callAPI_eager(service, data) ==
    IF "action" \notin DOMAIN data
    THEN {Raise("KeyError", "'action'")}
    ELSE IF service = "bank_api"
         THEN IF data["action"] = "credit"
              THEN {Return(None)}
              ELSE {Raise("BankAPIUnifierException",
                          "Unrecognized action: " \o data["action"])}
         ELSE {Return(None)}

callAPI(service, data) ==
    IF service = "bank_api"
    THEN IF "action" \notin DOMAIN data
         THEN {Raise("KeyError", "'action'")}
         ELSE IF data["action"] = "credit"
              THEN IF bank = "stub" THEN {Return(None)} ELSE BankTransfer(data)
              ELSE {Raise("BankAPIUnifierException",
                          "Unrecognized action: " \o data["action"])}
    ELSE {Return(None)}

\* ------------------------------------------------------------------- Init
Init ==
    /\ ai_entities \in EntitySeqs
    /\ meter \in {"stub", "defined"}
    /\ bank = "stub"
    /\ pc = "init"
    /\ i = 0
    /\ pay = None
    /\ exc = NoExc
    /\ calls = <<>>
    /\ log = <<>>

\* -------------------------------------------- AIPayroll.process_payroll
\* Mutant: the amount sent with its sign flipped.
CreditRequest_negated(ai_entity, amount) ==
    [action |-> "credit", unique_id |-> ai_entity.unique_id,
     amount |-> [t |-> amount.t, v |-> 0 - amount.v]]

\* Mutant: the request sent as a debit.
CreditRequest_debit(ai_entity, amount) ==
    [action |-> "debit", unique_id |-> ai_entity.unique_id, amount |-> amount]

\* The payload of line 23.
CreditRequest(ai_entity, amount) ==
    [action |-> "credit", unique_id |-> ai_entity.unique_id, amount |-> amount]

\* The two f-strings handed to logging (lines 25 and 27).
InfoRecord(ai_entity, amount) ==
    [level |-> "INFO",
     msg |-> "Successfully credited $" \o Str(amount) \o " to AI entity "
             \o ai_entity.unique_id \o "."]

ErrorRecord(ai_entity, e) ==
    [level |-> "ERROR",
     msg |-> "Failed to process payroll for AI entity " \o ai_entity.unique_id
             \o ": " \o e.detail]

\* The names bound at module level when the except clause is evaluated;
\* no builtin is called APIUnifierException either.
ModuleGlobals == {"logging", "AIPayroll", "BankAPIUnifierException", "APIUnifier"}
ExceptName == "APIUnifierException"

\* The caller enters process_payroll.
process_payroll ==
    /\ pc = "init"
    /\ pc' = "for"
    /\ UNCHANGED <<ai_entities, meter, bank, i, pay, exc, calls, log>>

\* Mutant: the loop runs over ai_entities[1:], skipping the first entity.
ForEach_skipFirst ==
    /\ pc = "for"
    /\ IF i = 0 /\ Len(ai_entities) >= 2
       THEN i' = 2 /\ pc' = "pay"
       ELSE IF i < Len(ai_entities)
            THEN i' = i + 1 /\ pc' = "pay"
            ELSE i' = i /\ pc' = "returned"
    /\ UNCHANGED <<ai_entities, meter, bank, pay, exc, calls, log>>

\* Line 17: the iterator yields the next entity, or the loop and the method end.
ForEach ==
    /\ pc = "for"
    /\ IF i < Len(ai_entities)
       THEN i' = i + 1 /\ pc' = "pay"
       ELSE i' = i /\ pc' = "returned"
    /\ UNCHANGED <<ai_entities, meter, bank, pay, exc, calls, log>>

\* Line 18, outside the try: an exception here leaves process_payroll.
CalcPay ==
    /\ pc = "pay"
    /\ LET r == calculate_pay(ai_entities[i])
       IN IF r.kind = "return"
          THEN pay' = r.value /\ pc' = "call" /\ exc' = exc
          ELSE pay' = pay /\ pc' = "raised" /\ exc' = r
    /\ UNCHANGED <<ai_entities, meter, bank, i, calls, log>>

\* Lines 21-24: the credit request is handed to the gateway.
CallGateway ==
    /\ pc = "call"
    /\ calls' = Append(calls, [service |-> "bank_api",
                               data |-> CreditRequest(ai_entities[i], pay),
                               outcome |-> Pending])
    /\ pc' = "gateway"
    /\ UNCHANGED <<ai_entities, meter, bank, i, pay, exc, log>>

\* callAPI runs to completion: it returns, or raises into the try block.
GatewayDone ==
    /\ pc = "gateway"
    /\ LET c == calls[Len(calls)]
       IN \E out \in callAPI(c.service, c.data) :
            /\ calls' = [calls EXCEPT ![Len(calls)].outcome = out]
            /\ IF out.kind = "return"
               THEN pc' = "info" /\ exc' = exc
               ELSE pc' = "except" /\ exc' = out
    /\ UNCHANGED <<ai_entities, meter, bank, i, pay, log>>

\* Line 25.
LogInfo ==
    /\ pc = "info"
    /\ log' = Append(log, InfoRecord(ai_entities[i], pay))
    /\ pc' = "for"
    /\ UNCHANGED <<ai_entities, meter, bank, i, pay, exc, calls>>

\* Lines 26-27: the except clause evaluates its class expression first; a name
\* that is not bound raises NameError, which replaces the exception in flight.
ExceptClause ==
    /\ pc = "except"
    /\ IF ExceptName \notin ModuleGlobals
       THEN /\ exc' = Raise("NameError", "name '" \o ExceptName \o "' is not defined")
            /\ pc' = "raised"
            /\ log' = log
       ELSE IF exc.type = ExceptName
            THEN /\ log' = Append(log, ErrorRecord(ai_entities[i], exc))
                 /\ exc' = NoExc
                 /\ pc' = "for"
            ELSE /\ pc' = "raised"
                 /\ UNCHANGED <<exc, log>>
    /\ UNCHANGED <<ai_entities, meter, bank, i, pay, calls>>

\* A caller other than process_payroll invokes the gateway directly.
DirectCall ==
    /\ pc = "caller"
    /\ Len(calls) < MaxCalls
    /\ \E service \in Services, data \in Payloads :
         \E out \in callAPI(service, data) :
            calls' = Append(calls, [service |-> service, data |-> data, outcome |-> out])
    /\ UNCHANGED <<ai_entities, meter, bank, pc, i, pay, exc, log>>

\* --------------------------------------------------------- specifications
\* The source as written, with the usage method either the stub or defined.
Next ==
    \/ process_payroll
    \/ ForEach
    \/ CalcPay
    \/ CallGateway
    \/ GatewayDone
    \/ LogInfo

Spec == Init /\ [][Next]_vars

\* The payroll run against a banking collaborator that can fail.
InitFault ==
    /\ ai_entities \in EntitySeqs
    /\ meter = "defined"
    /\ bank = "live"
    /\ pc = "init"
    /\ i = 0
    /\ pay = None
    /\ exc = NoExc
    /\ calls = <<>>
    /\ log = <<>>

NextFault ==
    \/ process_payroll
    \/ ForEach
    \/ CalcPay
    \/ CallGateway
    \/ GatewayDone
    \/ LogInfo
    \/ ExceptClause

SpecFault == InitFault /\ [][NextFault]_vars

\* The gateway on its own, called with arbitrary services and payloads.
InitGateway ==
    /\ ai_entities = <<>>
    /\ meter = "stub"
    /\ bank = "stub"
    /\ pc = "caller"
    /\ i = 0
    /\ pay = None
    /\ exc = NoExc
    /\ calls = <<>>
    /\ log = <<>>

NextGateway == DirectCall

SpecGateway == InitGateway /\ [][NextGateway]_vars

\* ================================================================= claims
Terminated == pc \in {"returned", "raised"}
Requests == 1..Len(calls)

\* C1: when a run of process_payroll over N entities has ended, exactly N
\* credit requests have been issued, the k-th for the k-th entity.
C1_OneRequestPerEntity ==
    Terminated =>
        /\ Len(calls) = Len(ai_entities)
        /\ \A k \in Requests : calls[k].data.unique_id = ai_entities[k].unique_id

\* C2: a failure raised by the gateway for one entity never leaves
\* process_payroll, and the run still issues a request for every entity.
C2_GatewayFailureContained ==
    \A k \in Requests :
        calls[k].outcome.kind = "raise" =>
            /\ pc # "raised"
            /\ pc = "returned" => Len(calls) = Len(ai_entities)

\* C3: callAPI("bank_api", data) with an action other than "credit" raises
\* BankAPIUnifierException whose detail is "Unrecognized action: <action>".
C3_UnrecognizedActionRaises ==
    \A k \in Requests :
        (/\ calls[k].service = "bank_api"
         /\ "action" \in DOMAIN calls[k].data
         /\ calls[k].data["action"] # "credit")
        => /\ calls[k].outcome.kind = "raise"
           /\ calls[k].outcome.type = "BankAPIUnifierException"
           /\ calls[k].outcome.detail = "Unrecognized action: " \o calls[k].data["action"]

C3_Witness ==
    \E k \in Requests :
        /\ calls[k].service = "bank_api"
        /\ "action" \in DOMAIN calls[k].data
        /\ calls[k].data["action"] = "debit"
        /\ calls[k].outcome.kind = "raise"

\* C4: callAPI("bank_api", data) with action "credit" raises nothing: the call
\* completes by returning.
C4_CreditNeverRaises ==
    \A k \in Requests :
        (/\ calls[k].service = "bank_api"
         /\ "action" \in DOMAIN calls[k].data
         /\ calls[k].data["action"] = "credit")
        => calls[k].outcome.kind = "return"

C4_Witness ==
    \E k \in Requests :
        /\ calls[k].service = "bank_api"
        /\ "action" \in DOMAIN calls[k].data
        /\ calls[k].data["action"] = "credit"
        /\ calls[k].data.amount = PyFloat(1)
        /\ calls[k].outcome.kind = "return"

\* C5: callAPI with a service other than "bank_api" returns None and raises
\* nothing, whatever the payload, also one without an action.
C5_UnknownServiceReturnsNone ==
    \A k \in Requests :
        calls[k].service # "bank_api" => calls[k].outcome = Return(None)

C5_Witness ==
    /\ \E k \in Requests :
        /\ calls[k].service = "crypto_api"
        /\ "action" \notin DOMAIN calls[k].data
        /\ calls[k].outcome.kind = "return"
    /\ \E k \in Requests :
        /\ calls[k].service = "crypto_api"
        /\ "action" \in DOMAIN calls[k].data
        /\ calls[k].data["action"] = "debit"

\* C6: for an entity whose data usage is a number d >= 0, calculate_pay raises
\* nothing and returns the float d * 1.0.
C6_PayIsUsageTimesRate ==
    (i >= 1 /\ IsNumber(calculate_data_usage_in_bits(ai_entities[i])))
    => LET d == ai_entities[i].data_usage_bits
       IN /\ d.v >= 0
          /\ pc # "raised"
          /\ pc \in {"call", "gateway", "info"} => pay = PyFloat(d.v * 1)

C6_Witness ==
    /\ pc = "call"
    /\ meter = "defined"
    /\ ai_entities[i].data_usage_bits = PyInt(1)
    /\ pay = PyFloat(1)

\* C7: the amount of every credit request issued is a number >= 0, and it is
\* the pay of the entity whose unique_id the request carries.
C7_AmountIsEntityPay ==
    \A k \in Requests :
        LET a == calls[k].data.amount
            e == ai_entities[k]
        IN /\ IsNumber(a)
           /\ a.v >= 0
           /\ calls[k].data.unique_id = e.unique_id
           /\ a = PyFloat(e.data_usage_bits.v)

C7_Witness ==
    /\ Len(calls) >= 2
    /\ calls[2].data.amount = PyFloat(1)
    /\ calls[1].data.amount = PyFloat(0)
    /\ calls[1].data.unique_id # calls[2].data.unique_id

\* C8: when the run has ended every entity has exactly one log record, INFO
\* when its request returned and ERROR when the gateway raised; and no record
\* is ever emitted for a request that has not completed.
C8_OneLogRecordPerEntity ==
    /\ Len(log) <= Cardinality({k \in Requests : calls[k].outcome.kind # "pending"})
    /\ Terminated =>
        /\ Len(log) = Len(ai_entities)
        /\ Len(calls) = Len(ai_entities)
        /\ \A k \in Requests :
            log[k].level = (IF calls[k].outcome.kind = "return" THEN "INFO" ELSE "ERROR")

\* C9: requests are issued in the order of ai_entities with none skipped, and
\* the request for an entity is issued only once every earlier request has
\* completed and its log record has been emitted.
C9_SequentialInOrder ==
    /\ Len(calls) <= Len(ai_entities)
    /\ \A k \in Requests :
        /\ calls[k].data.unique_id = ai_entities[k].unique_id
        /\ calls[k].data.amount.v = ai_entities[k].data_usage_bits.v
        /\ k < Len(calls) =>
            /\ calls[k].outcome.kind # "pending"
            /\ Len(log) >= k

C9_Witness ==
    /\ Len(calls) = 3
    /\ pc = "gateway"
    /\ Len(log) = 2
    /\ ai_entities[1].unique_id # ai_entities[2].unique_id
    /\ ai_entities[2].data_usage_bits.v # ai_entities[3].data_usage_bits.v

\* C10: every gateway call of process_payroll is ("bank_api", action "credit")
\* and none raises; no ERROR record is ever logged, and a run in which pay is
\* computed for every entity returns with one INFO record per entity.
C10_NoErrorPath ==
    /\ \A k \in Requests :
        /\ calls[k].service = "bank_api"
        /\ "action" \in DOMAIN calls[k].data
        /\ calls[k].data["action"] = "credit"
        /\ calls[k].outcome.kind # "raise"
    /\ \A k \in 1..Len(log) : log[k].level = "INFO"
    /\ (Terminated /\ meter = "defined") =>
        /\ pc = "returned"
        /\ Len(log) = Len(ai_entities)
        /\ \A k \in 1..Len(log) :
            log[k].msg = "Successfully credited $"
                         \o ToString(ai_entities[k].data_usage_bits.v) \o ".0"
                         \o " to AI entity " \o ai_entities[k].unique_id \o "."

C10_Witness ==
    /\ pc = "returned"
    /\ Len(ai_entities) = 2
    /\ Len(log) = 2
    /\ Len(calls) = 2
====
